---- MODULE Spec2Model ----
(***************************************************************************)
(* Buhlmann ZH-L16 tissue-loading model of m5lapp/diveplanner              *)
(* (buhlmann/buhlmann.go, gasmix/gasmix.go, helpers/helpers.go).           *)
(*                                                                         *)
(* float64 quantities (pressures in bar, depths in metres, times in        *)
(* minutes, gas fractions) are fixed-point integers with Scale units per   *)
(* unit; the factor math.Pow(math.E, -k*t) is kept with ExpScale units per *)
(* unit.  Products are formed limb-wise so that every intermediate value   *)
(* stays inside the 32-bit integers of the model checker.                  *)
(***************************************************************************)
EXTENDS Integers, Sequences, FiniteSets, TLC

VARIABLES
  heap,    \* the compartment arrays, by address
  m,       \* the caller's model (a ZhlModel struct)
  cp,      \* a copy of it made by copyModel(), or NoModel
  pc,      \* the call in progress: "idle", "GetNDL", "dslLoop", "dslStop"
  ndl,     \* the locals of GetNDL()
  dsl,     \* the locals of decompStopLengths()
  ret,     \* the last completed call and what it returned
  nops,    \* the number of TransitionCalc/StopCalc calls made by the caller
  powTab,  \* one-minute values of math.Pow(math.E, -k*t), by half-time
  dp,      \* the caller's DivePlan
  durs,    \* the time of each TransitionCalc/StopCalc call made on m so far
  loop,    \* the locals of a TransitionCalc/StopCalc call run step by step
  wn       \* the locals of WithinNDLs()

vars == << heap, m, cp, pc, ndl, dsl, ret, nops, powTab, dp, durs, loop,
          wn >>

Scale == 1000 * 1000
ExpScale == 1000 * 1000 * 1000

\* buhlmann.go:23, 25, 28
atmPressure == 1000000
compartCount == 16
pH2O == 62660

\* math.Log(2.0) in ExpScale units (buhlmann.go:197).
Ln2 == 693147181

\* 1.0 / math.Log(2.0) in ExpScale units: 1.0/k is ht times this.
InvLn2 == 1442695041

\* math.MaxFloat64 (buhlmann.go:253): the largest value of the number type.
MaxFloat64 == 2147483647

\* Half-times n2Ht/heHt are in hundredths of a minute, a/b values in Scale
\* units; the digits are those of the source table.
compartCoefSets ==
  << << [n |-> 1, n2Ht |-> 400, n2A |-> 1259900, n2B |-> 505000, heHt |-> 150, heA |-> 1743500, heB |-> 191100],
        [n |-> 2, n2Ht |-> 800, n2A |-> 1000000, n2B |-> 651400, heHt |-> 300, heA |-> 1383800, heB |-> 429500],
        [n |-> 3, n2Ht |-> 1250, n2A |-> 861800, n2B |-> 722200, heHt |-> 470, heA |-> 1192500, heB |-> 544600],
        [n |-> 4, n2Ht |-> 1850, n2A |-> 756200, n2B |-> 772500, heHt |-> 700, heA |-> 1046500, heB |-> 626500],
        [n |-> 5, n2Ht |-> 2700, n2A |-> 666700, n2B |-> 812500, heHt |-> 1020, heA |-> 922600, heB |-> 691700],
        [n |-> 6, n2Ht |-> 3830, n2A |-> 593300, n2B |-> 843400, heHt |-> 1450, heA |-> 821100, heB |-> 742000],
        [n |-> 7, n2Ht |-> 5430, n2A |-> 528200, n2B |-> 869300, heHt |-> 2050, heA |-> 730900, heB |-> 784100],
        [n |-> 8, n2Ht |-> 7700, n2A |-> 470100, n2B |-> 891000, heHt |-> 2910, heA |-> 650600, heB |-> 819500],
        [n |-> 9, n2Ht |-> 10900, n2A |-> 418700, n2B |-> 909200, heHt |-> 4110, heA |-> 579400, heB |-> 849100],
        [n |-> 10, n2Ht |-> 14600, n2A |-> 379800, n2B |-> 922200, heHt |-> 5510, heA |-> 525600, heB |-> 870300],
        [n |-> 11, n2Ht |-> 18700, n2A |-> 349700, n2B |-> 931900, heHt |-> 7060, heA |-> 484000, heB |-> 886000],
        [n |-> 12, n2Ht |-> 23900, n2A |-> 322300, n2B |-> 940300, heHt |-> 9020, heA |-> 446000, heB |-> 899700],
        [n |-> 13, n2Ht |-> 30500, n2A |-> 297100, n2B |-> 947700, heHt |-> 11510, heA |-> 411200, heB |-> 911800],
        [n |-> 14, n2Ht |-> 39000, n2A |-> 273700, n2B |-> 954400, heHt |-> 14720, heA |-> 378800, heB |-> 922600],
        [n |-> 15, n2Ht |-> 49800, n2A |-> 252300, n2B |-> 960200, heHt |-> 18790, heA |-> 349200, heB |-> 932100],
        [n |-> 16, n2Ht |-> 63500, n2A |-> 232700, n2B |-> 965300, heHt |-> 23960, heA |-> 322000, heB |-> 940400] >>,
     << [n |-> 1, n2Ht |-> 400, n2A |-> 1259900, n2B |-> 524000, heHt |-> 151, heA |-> 1618900, heB |-> 424500],
        [n |-> 2, n2Ht |-> 800, n2A |-> 1000000, n2B |-> 651400, heHt |-> 302, heA |-> 1383000, heB |-> 574700],
        [n |-> 3, n2Ht |-> 1250, n2A |-> 861800, n2B |-> 722200, heHt |-> 472, heA |-> 1191900, heB |-> 652700],
        [n |-> 4, n2Ht |-> 1850, n2A |-> 756200, n2B |-> 782500, heHt |-> 699, heA |-> 1045800, heB |-> 722300],
        [n |-> 5, n2Ht |-> 2700, n2A |-> 666700, n2B |-> 812600, heHt |-> 1021, heA |-> 922000, heB |-> 758200],
        [n |-> 6, n2Ht |-> 3830, n2A |-> 550500, n2B |-> 843400, heHt |-> 1448, heA |-> 820500, heB |-> 795700],
        [n |-> 7, n2Ht |-> 5430, n2A |-> 485800, n2B |-> 869300, heHt |-> 2053, heA |-> 730500, heB |-> 827900],
        [n |-> 8, n2Ht |-> 7700, n2A |-> 444300, n2B |-> 891000, heHt |-> 2911, heA |-> 650200, heB |-> 855300],
        [n |-> 9, n2Ht |-> 10900, n2A |-> 418700, n2B |-> 909200, heHt |-> 4120, heA |-> 595000, heB |-> 875700],
        [n |-> 10, n2Ht |-> 14600, n2A |-> 379800, n2B |-> 922200, heHt |-> 5519, heA |-> 554500, heB |-> 890300],
        [n |-> 11, n2Ht |-> 18700, n2A |-> 349700, n2B |-> 931900, heHt |-> 7069, heA |-> 533300, heB |-> 899700],
        [n |-> 12, n2Ht |-> 23900, n2A |-> 322300, n2B |-> 940300, heHt |-> 9034, heA |-> 518900, heB |-> 907300],
        [n |-> 13, n2Ht |-> 30500, n2A |-> 282800, n2B |-> 947700, heHt |-> 11529, heA |-> 518100, heB |-> 912200],
        [n |-> 14, n2Ht |-> 39000, n2A |-> 273700, n2B |-> 954400, heHt |-> 14742, heA |-> 517600, heB |-> 917100],
        [n |-> 15, n2Ht |-> 49800, n2A |-> 252300, n2B |-> 960200, heHt |-> 18824, heA |-> 517200, heB |-> 921700],
        [n |-> 16, n2Ht |-> 63500, n2A |-> 232700, n2B |-> 965300, heHt |-> 24003, heA |-> 511900, heB |-> 926700] >>,
     << [n |-> 1, n2Ht |-> 400, n2A |-> 1259900, n2B |-> 524000, heHt |-> 151, heA |-> 1618900, heB |-> 424500],
        [n |-> 2, n2Ht |-> 800, n2A |-> 1000000, n2B |-> 651400, heHt |-> 302, heA |-> 1383000, heB |-> 574700],
        [n |-> 3, n2Ht |-> 1250, n2A |-> 861800, n2B |-> 722200, heHt |-> 472, heA |-> 1191900, heB |-> 652700],
        [n |-> 4, n2Ht |-> 1850, n2A |-> 756200, n2B |-> 782500, heHt |-> 699, heA |-> 1045800, heB |-> 722300],
        [n |-> 5, n2Ht |-> 2700, n2A |-> 666700, n2B |-> 812600, heHt |-> 1021, heA |-> 922000, heB |-> 758200],
        [n |-> 6, n2Ht |-> 3830, n2A |-> 560000, n2B |-> 843400, heHt |-> 1448, heA |-> 820500, heB |-> 795700],
        [n |-> 7, n2Ht |-> 5430, n2A |-> 494700, n2B |-> 869300, heHt |-> 2053, heA |-> 730500, heB |-> 827900],
        [n |-> 8, n2Ht |-> 7700, n2A |-> 450000, n2B |-> 891000, heHt |-> 2911, heA |-> 650200, heB |-> 855300],
        [n |-> 9, n2Ht |-> 10900, n2A |-> 418700, n2B |-> 909200, heHt |-> 4120, heA |-> 595000, heB |-> 875700],
        [n |-> 10, n2Ht |-> 14600, n2A |-> 379800, n2B |-> 922200, heHt |-> 5519, heA |-> 554500, heB |-> 890300],
        [n |-> 11, n2Ht |-> 18700, n2A |-> 349700, n2B |-> 931900, heHt |-> 7069, heA |-> 533300, heB |-> 899700],
        [n |-> 12, n2Ht |-> 23900, n2A |-> 322300, n2B |-> 940300, heHt |-> 9034, heA |-> 518900, heB |-> 907300],
        [n |-> 13, n2Ht |-> 30500, n2A |-> 285000, n2B |-> 947700, heHt |-> 11529, heA |-> 518100, heB |-> 912200],
        [n |-> 14, n2Ht |-> 39000, n2A |-> 273700, n2B |-> 954400, heHt |-> 14742, heA |-> 517600, heB |-> 917100],
        [n |-> 15, n2Ht |-> 49800, n2A |-> 252300, n2B |-> 960200, heHt |-> 18824, heA |-> 517200, heB |-> 921700],
        [n |-> 16, n2Ht |-> 63500, n2A |-> 232700, n2B |-> 965300, heHt |-> 24003, heA |-> 511900, heB |-> 926700] >> >>

ZHL16A == 0
ZHL16B == 1
ZHL16C == 2

--------------------------------------------------------------------------
\* float64 arithmetic

Abs(x) == IF x < 0 THEN -x ELSE x

Max(a, b) == IF a > b THEN a ELSE b

SameSign(a, b) == (a < 0) = (b < 0)

\* The five base-1000 partial products of a * b, for 0 <= a, b < 2^31.
Limbs(a, b) ==
  LET a0 == a % 1000
      a1 == (a \div 1000) % 1000
      a2 == a \div 1000000
      b0 == b % 1000
      b1 == (b \div 1000) % 1000
      b2 == b \div 1000000
  IN  << a0 * b0,
         a0 * b1 + a1 * b0,
         a0 * b2 + a1 * b1 + a2 * b0,
         a1 * b2 + a2 * b1,
         a2 * b2 >>

\* a * b / Scale for a, b >= 0, rounded to the nearest unit.
MulAbs(a, b) ==
  LET p == Limbs(a, b)
  IN  p[5] * 1000000 + p[4] * 1000 + p[3]
        + ((p[2] + 500 + (p[1] \div 1000)) \div 1000)

\* a * e / ExpScale for a, e >= 0, rounded to the nearest unit.
MulAbsE(a, e) ==
  LET p == Limbs(a, e)
  IN  p[5] * 1000 + p[4]
        + ((p[3] + 500 + ((p[2] + (p[1] \div 1000)) \div 1000)) \div 1000)

\* x * y of two Scale-valued float64s.
FMul(a, b) ==
  IF a = 0 \/ b = 0 THEN 0
  ELSE IF SameSign(a, b) THEN MulAbs(Abs(a), Abs(b))
  ELSE -MulAbs(Abs(a), Abs(b))

\* x / y of two Scale-valued float64s (y # 0): long division, two decimal
\* digits at a time, truncated after six decimals.
RECURSIVE DivDigits(_, _, _, _)
DivDigits(q, r, b, n) ==
  IF n = 0 THEN q
  ELSE DivDigits(q * 100 + ((r * 100) \div b), (r * 100) % b, b, n - 1)

FDiv(a, b) ==
  LET q == DivDigits(Abs(a) \div Abs(b), Abs(a) % Abs(b), Abs(b), 3)
  IN  IF SameSign(a, b) THEN q ELSE -q

\* float64 values that are not finite: 0.0/0.0 and x/0.0.  The operators
\* above and the queries of the model are for finite values; the operators
\* below say where a value that is not finite arises and how TransitionCalc
\* and StopCalc carry it on.
NaN == 2000000001
Inf == 2000000002

IsFinite(x) == x \notin {NaN, Inf, -Inf}

\* a / b in float64: 0/0 is NaN, x/0 is an infinity with the sign of x
\* (b is +0 here; TransitionCalc turns it into -0 itself).
FDivF(a, b) ==
  IF b # 0 THEN FDiv(a, b)
  ELSE IF a = 0 THEN NaN
  ELSE IF a > 0 THEN Inf ELSE -Inf

\* currT + math.Abs(time)
AddAbs(currT, time) ==
  IF currT = NaN \/ time = NaN THEN NaN
  ELSE IF ~IsFinite(currT) \/ ~IsFinite(time) THEN Inf
  ELSE currT + Abs(time)

RECURSIVE Pow2(_)
Pow2(n) == IF n = 0 THEN 1 ELSE 2 * Pow2(n - 1)

\* 2^(-j/16) for j = 0 .. 15, in ExpScale units.
Pow2Sixteenths ==
  << 1000000000, 957603281, 917004043, 878126080, 840896415, 805245166,
     771105413, 738413073, 707106781, 677127773, 648419777, 620928906,
     594603558, 569394317, 545253866, 522136891 >>

\* e^(-y) for 0 <= y < (ln 2)/16 in ExpScale units: the Taylor series in
\* Horner form; six terms leave an error below one unit.
RECURSIVE ExpHorner(_, _, _)
ExpHorner(y, i, acc) ==
  IF i = 0 THEN acc
  ELSE ExpHorner(y, i - 1, ExpScale - (MulAbsE(y, acc) \div i))

ExpNeg(y) == ExpHorner(y, 6, ExpScale)

\* 2^(-f) for a fraction 0 <= f < 1 in ExpScale units.
Pow2Neg(f) ==
  LET j == f \div 62500000
      g == f % 62500000
  IN  MulAbsE(Pow2Sixteenths[j + 1], ExpNeg(MulAbsE(g, Ln2)))

\* math.Pow(math.E, -k*t) with k = ln 2 / ht, that is 2^(-t/ht), for a time t
\* in Scale units and a half-time ht in hundredths of a minute.  The result
\* is mant * 2^(-shift) with mant in ExpScale units, 1/2 < mant <= 1.
PowEval(t, ht) ==
  LET T  == Abs(t)
      q0 == T \div ht                        \* |t|/ht in units of 10^-4
      r0 == T % ht
      d1 == (r0 * 1000) \div ht
      r1 == (r0 * 1000) % ht
      d2 == (r1 * 100) \div ht
      n  == q0 \div 10000                    \* integer part of |t|/ht
      f  == (q0 % 10000) * 100000 + d1 * 100 + d2   \* fraction, ExpScale
  IN  IF t >= 0 \/ f = 0
        THEN [mant |-> Pow2Neg(f), shift |-> IF t >= 0 THEN n ELSE -n]
        ELSE [mant |-> Pow2Neg(ExpScale - f), shift |-> -(n + 1)]

\* The half-times of the coefficient tables, and PowEval for a time of one
\* minute tabulated over them: the one-minute stops of GetNDL and
\* decompStopLengths evaluate the same power again and again.
HalfTimes ==
  UNION {{compartCoefSets[v][i].n2Ht, compartCoefSets[v][i].heHt} :
           v \in 1 .. 3, i \in 1 .. compartCount}

PowOneMinute == [ht \in HalfTimes |-> PowEval(Scale, ht)]

\* powTab holds PowOneMinute, computed once when the program starts.
PowE(t, ht) == IF t = Scale THEN powTab[ht] ELSE PowEval(t, ht)

\* x * math.Pow(math.E, -k*t) for a Scale-valued x.
MulPowE(x, e) ==
  IF x = 0 THEN 0
  ELSE LET p == MulAbsE(Abs(x), e.mant)
           v == IF e.shift >= 31 THEN 0
                ELSE IF e.shift >= 0 THEN p \div Pow2(e.shift)
                ELSE p * Pow2(-e.shift)
       IN  IF x < 0 THEN -v ELSE v

--------------------------------------------------------------------------
\* helpers/helpers.go

\* Depth() calculates the depth in metres for a given pressure in bar.
Depth(pressure) == (pressure - Scale) * 10

\* Pressure() calculates the pressure in bar for a given depth in metres.
Pressure(depth) == (depth \div 10) + Scale

--------------------------------------------------------------------------
\* gasmix/gasmix.go

Unknown == "Unknown"
Air == "Air"
Heliox == "Heliox"
Nitrox == "Nitrox"
Trimix == "Trimix"

\* The gas mixes the constructors NewAirMix(), NewNitroxMix(0.32),
\* NewTrimixMix(0.21, 0.35) and NewHelioxMix(0.21) build, and the struct
\* literal GasMix{FHe: -0.1, FN2: 0.89, FO2: 0.21}, which no constructor
\* builds and MixType() classifies Unknown.  A model holds a reference (an
\* index) into this table.
NewAirMix == [FHe |-> 0, FN2 |-> 790000, FO2 |-> 210000]

\* The (nil, error) a constructor returns for fractions it rejects.
MixError(msg) == [err |-> msg]

NewNitroxMix(fo2) ==
  IF fo2 < 210000 \/ fo2 > Scale THEN MixError("gasmix: Invalid FO2 value")
  ELSE [FHe |-> 0, FN2 |-> Scale - fo2, FO2 |-> fo2]

NewTrimixMix(fo2, fhe) ==
  IF fo2 < 210000 \/ fo2 > 980000 THEN MixError("gasmix: Invalid FO2 value")
  ELSE IF fhe < 10000 \/ fhe > 780000
    THEN MixError("gasmix: Invalid FHe value")
  ELSE IF fo2 + fhe > Scale
    THEN MixError("gasmix: Invalid FO2 and FHe values")
  ELSE [FHe |-> fhe, FN2 |-> Scale - (fhe + fo2), FO2 |-> fo2]

NewHelioxMix(fo2) ==
  IF fo2 < 210000 \/ fo2 >= 990000 THEN MixError("gasmix: Invalid FO2 value")
  ELSE [FHe |-> Scale - fo2, FN2 |-> 0, FO2 |-> fo2]

gasMixes ==
  << NewAirMix, NewNitroxMix(320000), NewTrimixMix(210000, 350000),
     NewHelioxMix(210000), [FHe |-> -100000, FN2 |-> 890000, FO2 |-> 210000] >>

MixType(gm) ==
  IF gm.FO2 = 210000 /\ gm.FN2 = 790000 /\ gm.FHe = 0 THEN Air
  ELSE IF gm.FHe > 0
    THEN IF gm.FN2 = 0 THEN Heliox
         ELSE IF gm.FN2 > 0 THEN Trimix
         ELSE Unknown
  ELSE IF gm.FHe = 0 THEN Nitrox
  ELSE Unknown

\* PPHe(), PPN2() and PPO2(): the partial pressure the method returns for
\* the gas mix at the given depth.
PPHe(gm, depth) == FMul(Pressure(Abs(depth)), gm.FO2)

PPN2(gm, depth) == FMul(Pressure(Abs(depth)), gm.FN2)

PPO2(gm, depth) == FMul(Pressure(Abs(depth)), gm.FO2)

--------------------------------------------------------------------------
\* buhlmann/buhlmann.go

Compartments == 1 .. compartCount

\* The Schreiner Equation.  pamb, prate, fig and pi are in Scale units, t in
\* Scale units of a minute, ht in hundredths of a minute.
schreinerEquation(pamb, t, prate, fig, pi, ht) ==
  LET palv == FMul(pamb - pH2O, fig)
      invK == MulAbsE(ht * 10000, InvLn2)          \* 1.0/k, k = ln 2 / ht
      r    == FMul(prate, fig)
  IN  IF ~IsFinite(t) \/ pi = NaN
        THEN NaN       \* r is 0 when t is not finite: r*(t-(1.0/k)) is NaN
        ELSE palv + FMul(r, t - invK)
               - MulPowE(palv - pi - FMul(r, invK), PowE(t, ht))

\* The compartment array of New() without the water vapour term.
NewCompartmentsDry ==
  [i \in Compartments |-> [pHe |-> 0, pN2 |-> 790000]]

\* The compartment array New() builds.
NewCompartments ==
  [i \in Compartments |-> [pHe |-> 0, pN2 |-> FMul(790000, Scale - pH2O)]]

\* New(gm, ccs): the model struct; its compartment array is stored in the
\* heap at address arr.  gm is a reference into gasMixes, coefs a reference
\* to compartCoefSets[ccs] (a sequence here, indexed from 1).
New(gm, ccs, arr) ==
  [ccs |-> ccs, coefs |-> ccs + 1, compartments |-> arr,
   currP |-> atmPressure, currT |-> 0, gasMix |-> gm]

\* copyModel() as a shallow copy: the new struct shares the receiver's array.
copyModelShallow(h, mdl, arr) ==
  [heap  |-> h,
   model |-> [ccs |-> mdl.ccs, coefs |-> mdl.coefs,
              compartments |-> mdl.compartments, currP |-> mdl.currP,
              currT |-> mdl.currT, gasMix |-> mdl.gasMix]]

\* copyModel(): a new struct whose compartment array is the fresh array at
\* address arr, filled element by element from the receiver's array.
copyModel(h, mdl, arr) ==
  [heap  |-> [h EXCEPT ![arr] =
                [i \in Compartments |->
                   [pHe |-> h[mdl.compartments][i].pHe,
                    pN2 |-> h[mdl.compartments][i].pN2]]],
   model |-> [ccs |-> mdl.ccs, coefs |-> mdl.coefs, compartments |-> arr,
              currP |-> mdl.currP, currT |-> mdl.currT,
              gasMix |-> mdl.gasMix]]

\* The loop over the compartments shared by TransitionCalc and StopCalc.
Recalc(h, mdl, time, pRate) ==
  LET gm == gasMixes[mdl.gasMix]
      cf == compartCoefSets[mdl.coefs]
      c  == h[mdl.compartments]
  IN  [h EXCEPT ![mdl.compartments] =
         [i \in Compartments |->
            [pHe |-> schreinerEquation(mdl.currP, time, pRate, gm.FHe,
                                       c[i].pHe, cf[i].heHt),
             pN2 |-> schreinerEquation(mdl.currP, time, pRate, gm.FN2,
                                       c[i].pN2, cf[i].n2Ht)]]]

\* One iteration of the loop over m.compartments with the N2 pressure taken
\* from the compartment before.
CompartmentUpdateChained(h, mdl, i, time, pRate) ==
  LET gm == gasMixes[mdl.gasMix]
      cf == compartCoefSets[mdl.coefs]
      c  == h[mdl.compartments][i]
      b  == h[mdl.compartments][IF i = 1 THEN compartCount ELSE i - 1]
  IN  [pHe |-> schreinerEquation(mdl.currP, time, pRate, gm.FHe, c.pHe,
                                 cf[i].heHt),
       pN2 |-> schreinerEquation(mdl.currP, time, pRate, gm.FN2, b.pN2,
                                 cf[i].n2Ht)]

\* One iteration of the loop over m.compartments: c is the element as the
\* iteration finds it, m.currP the model's pressure as the iteration finds it.
CompartmentUpdate(h, mdl, i, time, pRate) ==
  LET gm == gasMixes[mdl.gasMix]
      cf == compartCoefSets[mdl.coefs]
      c  == h[mdl.compartments][i]
  IN  [pHe |-> schreinerEquation(mdl.currP, time, pRate, gm.FHe, c.pHe,
                                 cf[i].heHt),
       pN2 |-> schreinerEquation(mdl.currP, time, pRate, gm.FN2, c.pN2,
                                 cf[i].n2Ht)]

\* The signed pressure rate TransitionCalc uses.
PRate(mdl, depth, rate) ==
  IF Pressure(depth) < mdl.currP /\ rate >= 0
    THEN -(rate \div 10)
    ELSE rate \div 10

\* The time TransitionCalc computes for the transition.
TransitionTime(mdl, depth, rate) ==
  LET delta == Pressure(depth) - mdl.currP
      pRate == PRate(mdl, depth, rate)
  IN  IF pRate = 0 /\ delta < 0 /\ rate >= 0
        THEN Inf                       \* pRate is -0.0: delta / -0.0
        ELSE FDivF(delta, pRate)

\* TransitionCalc() without the update of m.currP.
TransitionCalcKeepP(h, mdl, depth, rate) ==
  LET pRate == PRate(mdl, depth, rate)
      time  == TransitionTime(mdl, depth, rate)
  IN  [heap  |-> Recalc(h, mdl, time, pRate),
       model |-> [mdl EXCEPT !.currT = AddAbs(@, time)]]

\* TransitionCalc() adding the signed time to m.currT.
TransitionCalcNoAbs(h, mdl, depth, rate) ==
  LET nextP == Pressure(depth)
      pRate == PRate(mdl, depth, rate)
      time  == TransitionTime(mdl, depth, rate)
  IN  [heap  |-> Recalc(h, mdl, time, pRate),
       model |-> [mdl EXCEPT !.currP = nextP, !.currT = @ + time]]

TransitionCalc(h, mdl, depth, rate) ==
  LET nextP == Pressure(depth)
      pRate == PRate(mdl, depth, rate)
      time  == TransitionTime(mdl, depth, rate)
  IN  [heap  |-> Recalc(h, mdl, time, pRate),
       model |-> [mdl EXCEPT !.currP = nextP, !.currT = AddAbs(@, time)]]

\* StopCalc() without the update of m.currT.
StopCalcNoTime(h, mdl, time) ==
  [heap  |-> Recalc(h, mdl, time, 0),
   model |-> mdl]

StopCalc(h, mdl, time) ==
  [heap  |-> Recalc(h, mdl, time, 0),
   model |-> [mdl EXCEPT !.currT = AddAbs(@, time)]]

RECURSIVE CeilFold(_, _, _, _)
CeilFold(c, cf, heliox, i) ==
  IF i = 0 THEN -MaxFloat64
  ELSE LET a == IF heliox THEN cf[i].heA ELSE cf[i].n2A
           b == IF heliox THEN cf[i].heB ELSE cf[i].n2B
       IN  Max(CeilFold(c, cf, heliox, i - 1),
               FMul((c[i].pHe + c[i].pN2) - a, b))

\* ascentCeiling() with the Nitrogen pair for every mix.
ascentCeilingN2Pairs(h, mdl) ==
  Depth(CeilFold(h[mdl.compartments], compartCoefSets[mdl.coefs], FALSE,
                 compartCount))

\* ascentCeiling() with the operands of the subtraction exchanged.
ascentCeilingFlipped(h, mdl) ==
  LET c  == h[mdl.compartments]
      cf == compartCoefSets[mdl.coefs]
      he == MixType(gasMixes[mdl.gasMix]) = Heliox
      v  == [i \in Compartments |->
               FMul((IF he THEN cf[i].heA ELSE cf[i].n2A)
                      - (c[i].pHe + c[i].pN2),
                    IF he THEN cf[i].heB ELSE cf[i].n2B)]
  IN  Depth(CHOOSE x \in {v[i] : i \in Compartments} :
              \A i \in Compartments : v[i] <= x)

\* m.ascentCeiling().  The pressures are fixed-point values: after some
\* hundred one-minute steps the ceiling can be a few hundredths of a
\* millimetre away from the float64 one, so a comparison of the ceiling with
\* a depth stands for the code's only where the two are farther apart.
ascentCeiling(h, mdl) ==
  Depth(CeilFold(h[mdl.compartments], compartCoefSets[mdl.coefs],
                 MixType(gasMixes[mdl.gasMix]) = Heliox, compartCount))

\* math.Ceil(x / 3.0) * 3.0 for a Scale-valued x.
\* math.Floor(x / 3.0) * 3.0
Floor3(x) == (x \div (3 * Scale)) * (3 * Scale)

Ceil3(x) == (-((-x) \div (3 * Scale))) * (3 * Scale)

firstDecompStop(h, mdl) == Ceil3(ascentCeiling(h, mdl))

--------------------------------------------------------------------------
\* Bounds and inputs

MaxOps == 3
NumAddrs == 3

Addrs == 1 .. NumAddrs

\* The gas mix and coefficient set of the model under test.
Configs ==
  { [gm |-> 1, ccs |-> ZHL16A], [gm |-> 2, ccs |-> ZHL16B],
    [gm |-> 3, ccs |-> ZHL16C], [gm |-> 4, ccs |-> ZHL16A] }

Depths == {6 * Scale, 30 * Scale}
Rates == {20 * Scale}
Times == {60 * Scale}
AscentRates == {9 * Scale, Scale \div 10}

--------------------------------------------------------------------------
\* The heap

NoArray == << >>

NoModel ==
  [ccs |-> 0, coefs |-> 0, compartments |-> 0, currP |-> 0, currT |-> 0,
   gasMix |-> 0]

\* The address a new array gets: the lowest free one.
Alloc(h) ==
  CHOOSE a \in Addrs :
    h[a] = NoArray /\ \A b \in Addrs : b < a => h[b] # NoArray

\* Arrays that no live struct refers to are reclaimed.
Live(mdls) == {mdl.compartments : mdl \in mdls \ {NoModel}}

Collect(h, live) == [a \in Addrs |-> IF a \in live THEN h[a] ELSE NoArray]

\* What the caller can observe of a model.
Canon(h, mdl) == << mdl, h[mdl.compartments] >>

\* const float64EqualityThreshold float64 = 1e-9, below the resolution of
\* the fixed point.
float64EqualityThreshold == Scale \div 1000000000

EqualFloat64(a, b) == Abs(a - b) <= float64EqualityThreshold

DescOrAsc(fromD, toD) ==
  IF EqualFloat64(fromD, toD) THEN 0
  ELSE IF fromD < toD THEN 1 ELSE -1

--------------------------------------------------------------------------
\* Calls

NoNdl == [model |-> NoModel, i |-> 0, steps |-> 0, acs |-> << >>]

NoDsl ==
  [model |-> NoModel, aRate |-> 0, firstStop |-> 0, currStop |-> 0,
   nextStop |-> 0, ac |-> 0, stopLength |-> 0, stops |-> << >>,
   depths |-> << >>, visited |-> << >>, steps |-> 0]

Returned(op, args, val, steps, trail, visited) ==
  [op |-> op, args |-> args, val |-> val, steps |-> steps, trail |-> trail,
   visited |-> visited]

NoRet == Returned("", << >>, 0, 0, << >>, << >>)

--------------------------------------------------------------------------
\* diveplanner.go

\* The zero value of a DivePlan, as far as the model reads it.
NoPlan ==
  [DescentRate |-> 0, AscentRate |-> 0, GasMix |-> 0, Stops |-> << >>]

\* The Comment "" of a stop the caller has entered.  The Comment of a
\* transition, "<dir> from <from>m to <to>m", is kept as its three parts,
\* the depths as the tenths of a metre that %.1f prints.
NoComment == [dir |-> "", from |-> 0, to |-> 0]

\* A DivePlanStop the caller has entered.
DivePlanStop(depth, duration) ==
  [Depth |-> depth, Duration |-> duration, IsTransition |-> FALSE,
   Comment |-> NoComment]

\* float64 values, exactly.  Where the code compares or rounds, a millionth
\* is too coarse: 0.7 - 0.2 is below 0.5 in float64, 20.000001 / 20 is
\* above 1, and 1.1 / 0.1, above 11 by less than the division keeps, is 11.
\* A float64 between 2^-20 and 2^31, and a sum, difference or small multiple
\* of such, is written here with all its bits, as NumDigits digits
\* of Radix, the most significant first, the last thirteen after the point.
Radix == 1024

NumDigits == 17

Digits == 1 .. NumDigits

\* The digits brought into 0 .. Radix - 1 from the last to the first; the
\* head of the result is what is carried out: 0, or -1 under a negative sum.
RECURSIVE BigCarry(_, _, _)
BigCarry(x, i, c) ==
  IF i = 0 THEN << c >>
  ELSE Append(BigCarry(x, i - 1, (x[i] + c) \div Radix), (x[i] + c) % Radix)

BigSub(a, b) == BigCarry([i \in Digits |-> a[i] - b[i]], NumDigits, 0)

BigLe(a, b) == Head(BigSub(b, a)) = 0

BigAdd(a, b) == Tail(BigCarry([i \in Digits |-> a[i] + b[i]], NumDigits, 0))

\* a * n for a whole n below 2^21.
BigMul(a, n) == Tail(BigCarry([i \in Digits |-> a[i] * n], NumDigits, 0))

\* a / 2^s, the bits below the last digit dropped.
BigShr(a, s) ==
  LET w == s \div 10
      p == Pow2(s % 10)
      q == Pow2(10 - (s % 10))
  IN  [i \in Digits |->
         (IF i - w >= 1 THEN a[i - w] \div p ELSE 0)
           + (IF i - w - 1 >= 1 THEN (a[i - w - 1] % p) * q ELSE 0)]

\* a * 2^s, the bits above the first digit dropped.
BigShl(a, s) ==
  LET w == s \div 10
      p == Pow2(s % 10)
      q == Pow2(10 - (s % 10))
  IN  [i \in Digits |->
         (IF i + w <= NumDigits THEN (a[i + w] % q) * p ELSE 0)
           + (IF i + w + 1 <= NumDigits THEN a[i + w + 1] \div q ELSE 0)]

\* The bit s alone, counted from the last bit of the last digit.
BigUnit(s) ==
  [i \in Digits |-> IF i = NumDigits - (s \div 10) THEN Pow2(s % 10) ELSE 0]

\* The number of bits of a whole d.
RECURSIVE BitLen(_)
BitLen(d) == IF d = 0 THEN 0 ELSE 1 + BitLen(d \div 2)

\* The highest bit set in a, or -1.
BigTop(a) ==
  IF \A i \in Digits : a[i] = 0 THEN -1
  ELSE LET j == CHOOSE j \in Digits : a[j] # 0 /\ \A k \in 1 .. j - 1 : a[k] = 0
       IN  (NumDigits - j) * 10 + BitLen(a[j]) - 1

\* Rounding to the 53 bits of a float64, a tie going to the even one: the
\* value v, and dir, the side of a it is on.  sticky says that a stands for
\* a little more than its digits.
Round53(a, sticky) ==
  LET s == BigTop(a) - 52
  IN  IF s <= 0 THEN [v |-> a, dir |-> 0]
      ELSE LET k    == BigShr(a, s)
               t    == BigShl(k, s)
               rem  == Tail(BigSub(a, t))
               half == BigUnit(s - 1)
               up   == IF \A i \in Digits : rem[i] = half[i]
                         THEN sticky \/ k[NumDigits] % 2 = 1
                         ELSE BigLe(half, rem)
           IN  IF up THEN [v |-> BigAdd(t, BigUnit(s)), dir |-> 1]
               ELSE [v |-> t,
                     dir |-> IF ~sticky /\ \A i \in Digits : rem[i] = 0
                               THEN 0 ELSE -1]

\* The digits after the point of r / Scale.
RECURSIVE FracDigits(_, _)
FracDigits(r, n) ==
  IF n = 0 THEN << >>
  ELSE << (r * Radix) \div Scale >> \o FracDigits((r * Radix) % Scale, n - 1)

\* The float64 a decimal literal k / Scale (k >= 0) is stored as, and the
\* side of the decimal it is on.  The decimal ends within the digits only
\* if 5^6 divides k.
Float64(k) ==
  Round53(<< 0, 0, (k \div Scale) \div Radix, (k \div Scale) % Radix >>
            \o FracDigits(k % Scale, NumDigits - 4),
          k % 15625 # 0)

\* x - y in float64 for the decimals x and y: its sign and magnitude, and
\* dec, the difference of the decimals.
Float64Sub(x, y) ==
  LET a == Float64(Abs(x)).v
      b == Float64(Abs(y)).v
      d == BigSub(a, b)
  IN  IF (x < 0) # (y < 0)
        THEN [neg |-> x < 0, mag |-> Round53(BigAdd(a, b), FALSE).v,
              dec |-> x - y]
      ELSE IF Head(d) = 0
        THEN [neg |-> x < 0 /\ a # b, mag |-> Round53(Tail(d), FALSE).v,
              dec |-> x - y]
      ELSE [neg |-> ~(x < 0), mag |-> Round53(Tail(BigSub(b, a)), FALSE).v,
            dec |-> x - y]

\* 0.5
Half == BigUnit(10 * (NumDigits - 4) - 1)

\* math.Ceil(math.Abs(d / rate)) for a float64 d of at least half a metre
\* and a decimal rate.  The quotient q has the whole part n; the division
\* rounds q to n when q is within half a unit in the last place above n,
\* and to something above n otherwise.
CeilAbsQuot(d, rate) ==
  IF rate = 0 THEN Inf
  ELSE LET r  == Float64(Abs(rate)).v
           n0 == Abs(d.dec) \div Abs(rate)
           n  == IF BigLe(BigMul(r, n0), d.mag) THEN n0 ELSE n0 - 1
           nr == BigMul(r, n)
       IN  IF \A i \in Digits : nr[i] = d.mag[i] THEN n * Scale
           ELSE IF n = 0 THEN Scale
           ELSE IF BigLe(d.mag, BigAdd(nr, BigShr(r, 54 - BitLen(n))))
             THEN n * Scale
           ELSE (n + 1) * Scale

\* %.1f: the tenth nearest to the float64 stored for x; when the float64 is
\* the decimal tie itself, the even one.
Fmt1(x) ==
  LET q   == Abs(x) \div 100000
      r   == Abs(x) % 100000
      dir == Float64(Abs(x)).dir
      n   == IF r > 50000 \/ (r = 50000 /\ dir = 1)
                  \/ (r = 50000 /\ dir = 0 /\ q % 2 = 1)
               THEN q + 1 ELSE q
  IN  IF x < 0 THEN -n ELSE n

\* transitionDuration() rounding to the nearest minute.
transitionDurationNearest(plan, fromD, toD) ==
  LET depthDelta == toD - fromD
      rate       == Abs(IF depthDelta >= 0 THEN plan.DescentRate
                        ELSE plan.AscentRate)
  IN  IF Abs(depthDelta) < 500000 THEN 0
      ELSE IF rate = 0 THEN Inf
      ELSE ((2 * Abs(depthDelta) + rate) \div (2 * rate)) * Scale

transitionDuration(plan, fromD, toD) ==
  LET depthDelta == Float64Sub(toD, fromD)
  IN  IF ~depthDelta.neg /\ BigLe(Half, depthDelta.mag)
        THEN CeilAbsQuot(depthDelta, plan.DescentRate)
      ELSE IF depthDelta.neg /\ BigLe(Half, depthDelta.mag)
        THEN CeilAbsQuot(depthDelta, plan.AscentRate)
      ELSE 0

transitionStop(plan, fromD, toD) ==
  [Duration     |-> transitionDuration(plan, fromD, toD),
   Depth        |-> Abs((fromD + toD) \div 2),
   IsTransition |-> TRUE,
   Comment      |-> [dir  |-> IF toD < fromD THEN "Ascent" ELSE "Descent",
                     from |-> Fmt1(fromD), to |-> Fmt1(toD)]]

\* The loop of DiveProfile() from stop i on, and the statements after it.
RECURSIVE ProfileFold(_, _, _, _)
ProfileFold(plan, i, currDepth, profile) ==
  IF i > Len(plan.Stops)
    THEN IF Len(profile) > 0
           THEN Append(profile, transitionStop(plan, currDepth, 0))
           ELSE profile
  ELSE LET st == plan.Stops[i]
       IN  IF st.Depth > 0 /\ st.Duration > 0
             THEN ProfileFold(plan, i + 1, st.Depth,
                    profile \o << transitionStop(plan, currDepth, st.Depth),
                                  st >>)
             ELSE ProfileFold(plan, i + 1, currDepth, profile)

\* The loop of DiveProfile() without the test of the stop.
RECURSIVE ProfileFoldAll(_, _, _, _)
ProfileFoldAll(plan, i, currDepth, profile) ==
  IF i > Len(plan.Stops)
    THEN IF Len(profile) > 0
           THEN Append(profile, transitionStop(plan, currDepth, 0))
           ELSE profile
  ELSE LET st == plan.Stops[i]
       IN  ProfileFoldAll(plan, i + 1, st.Depth,
             profile \o << transitionStop(plan, currDepth, st.Depth), st >>)

DiveProfileAllStops(plan) == ProfileFoldAll(plan, 1, 0, << >>)

DiveProfile(plan) == ProfileFold(plan, 1, 0, << >>)

\* Every entry with a depth and a duration counts as a stop.
IsStopAny(s) == s.Depth > 0 /\ s.Duration > 0

\* if !s.IsTransition && s.Depth > 0.0 && s.Duration > 0.0
IsStop(s) == ~s.IsTransition /\ s.Depth > 0 /\ s.Duration > 0

\* The loop of calcTransitions() from stop i on, and the statements after
\* it: the stops it leaves in the plan.
RECURSIVE calcTransitionsFold(_, _, _, _)
calcTransitionsFold(plan, i, currDepth, stops) ==
  IF i > Len(plan.Stops)
    THEN IF Len(stops) > 0
           THEN Append(stops, transitionStop(plan, currDepth, 0))
           ELSE plan.Stops
  ELSE LET s == plan.Stops[i]
       IN  IF IsStop(s)
             THEN calcTransitionsFold(plan, i + 1, s.Depth,
                    stops \o << transitionStop(plan, currDepth, s.Depth), s >>)
             ELSE calcTransitionsFold(plan, i + 1, currDepth, stops)

\* dp.calcTransitions(): the plan it leaves.
calcTransitions(plan) ==
  [plan EXCEPT !.Stops = calcTransitionsFold(plan, 1, 0, << >>)]

\* No TransitionCalc/StopCalc call is being run step by step.
NoLoop ==
  [op |-> "", args |-> << >>, nextP |-> 0, pRate |-> 0, time |-> 0,
   done |-> {}, before |-> NoArray, was |-> NoModel]

\* The locals of WithinNDLs(): at is the statement reached, i the index of
\* the stop, prevDepth the depth of the stop before, checks what each test
\* of GetNDL() found.
NoWn == [at |-> "", i |-> 0, prevDepth |-> 0, checks |-> << >>]

--------------------------------------------------------------------------

Init ==
  /\ \E cfg \in Configs : m = New(cfg.gm, cfg.ccs, 1)
  /\ heap = [a \in Addrs |-> IF a = 1 THEN NewCompartments ELSE NoArray]
  /\ cp = NoModel
  /\ pc = "idle"
  /\ ndl = NoNdl
  /\ dsl = NoDsl
  /\ ret = NoRet
  /\ nops = 0
  /\ powTab = PowOneMinute
  /\ dp = NoPlan
  /\ durs = << >>
  /\ loop = NoLoop
  /\ wn = NoWn

\* m.TransitionCalc(depth, rate)
CallTransitionCalc(depth, rate) ==
  /\ pc = "idle"
  /\ nops < MaxOps
  /\ LET s == TransitionCalc(heap, m, depth, rate)
     IN  heap' = s.heap /\ m' = s.model
  /\ nops' = nops + 1
  /\ ret' = Returned("TransitionCalc", << depth, rate >>, 0, 0, << >>, << >>)
  /\ durs' = Append(durs, TransitionTime(m, depth, rate))
  /\ UNCHANGED << cp, pc, ndl, dsl, powTab, wn, loop, dp >>

\* m.StopCalc(time)
CallStopCalc(time) ==
  /\ pc = "idle"
  /\ nops < MaxOps
  /\ LET s == StopCalc(heap, m, time)
     IN  heap' = s.heap /\ m' = s.model
  /\ nops' = nops + 1
  /\ ret' = Returned("StopCalc", << time >>, 0, 0, << >>, << >>)
  /\ durs' = Append(durs, time)
  /\ UNCHANGED << cp, pc, ndl, dsl, powTab, wn, loop, dp >>

\* m.ascentCeiling()
CallAscentCeiling ==
  /\ pc = "idle"
  /\ ret' = Returned("ascentCeiling", << >>, ascentCeiling(heap, m), 0,
                     << >>, << >>)
  /\ UNCHANGED << heap, m, cp, pc, ndl, dsl, nops, powTab, wn, loop, dp, durs >>

\* m.firstDecompStop()
CallFirstDecompStop ==
  /\ pc = "idle"
  /\ ret' = Returned("firstDecompStop", << >>, firstDecompStop(heap, m), 0,
                     << >>, << >>)
  /\ UNCHANGED << heap, m, cp, pc, ndl, dsl, nops, powTab, wn, loop, dp, durs >>

maxNDL == 60

\* GetNDL() without the early return.
GetNDLFreshNever(mdl) == FALSE

\* The test GetNDL() makes before it copies the model.
GetNDLFresh(mdl) == mdl.currT = 0

\* The loop body of GetNDL() returning the 1-based count of iterations.
GetNDLIterOneBased(h, mdl, i) ==
  LET s  == StopCalc(h, mdl, Scale)
      ac == ascentCeiling(s.heap, s.model)
  IN  [heap |-> s.heap, model |-> s.model, ac |-> ac,
       return |-> ac > 0 \/ ~(i + 1 <= maxNDL),
       val |-> IF ac > 0 THEN i + 1 ELSE maxNDL]

\* One iteration of the loop of GetNDL() on the clone, for loop index i:
\* what it returns, if it returns, and the clone after it.
GetNDLIter(h, mdl, i) ==
  LET s  == StopCalc(h, mdl, Scale)
      ac == ascentCeiling(s.heap, s.model)
  IN  [heap |-> s.heap, model |-> s.model, ac |-> ac,
       return |-> ac > 0 \/ ~(i + 1 <= maxNDL),
       val |-> IF ac > 0 THEN i ELSE maxNDL]

\* m.GetNDL(): up to the loop.
GetNDLCall ==
  /\ pc = "idle"
  /\ IF GetNDLFresh(m)
       THEN /\ ret' = Returned("GetNDL", << >>, maxNDL, 0, << >>, << >>)
            /\ UNCHANGED << heap, pc, ndl >>
       ELSE /\ LET c == copyModel(heap, m, Alloc(heap))
               IN  /\ heap' = c.heap
                   /\ ndl' = [NoNdl EXCEPT !.model = c.model]
            /\ pc' = "GetNDL"
            /\ ret' = NoRet
  /\ UNCHANGED << m, cp, dsl, nops, powTab, wn, loop, dp, durs >>

\* m.GetNDL(): one iteration of the loop.
GetNDLStep ==
  /\ pc = "GetNDL"
  /\ \E it \in {GetNDLIter(heap, ndl.model, ndl.i)} :
         IF it.return
           THEN /\ ret' = Returned("GetNDL", << >>, it.val, ndl.steps + 1,
                                   Append(ndl.acs, it.ac), << >>)
                /\ heap' = Collect(it.heap, Live({m, cp}))
                /\ ndl' = NoNdl
                /\ pc' = "idle"
           ELSE /\ ndl' = [model |-> it.model, i |-> ndl.i + 1,
                           steps |-> ndl.steps + 1,
                           acs |-> Append(ndl.acs, it.ac)]
                /\ heap' = it.heap
                /\ UNCHANGED << ret, pc >>
  /\ UNCHANGED << m, cp, dsl, nops, powTab, wn, loop, dp, durs >>

\* lastStop set to the surface.
lastStopSurface == 0 * Scale

lastStop == 3 * Scale

\* nextStop := currStop
NextStopSame(currStop) == currStop

\* nextStop := currStop - 3.0
NextStopOf(currStop) == currStop - 3 * Scale

\* No candidate stop is ever skipped.
SkipStopNever(ac, nextStop) == FALSE

\* if ac < nextStop { continue }
SkipStop(ac, nextStop) == ac < nextStop

\* The stop lasts until the ceiling is above the stop itself.
StayAtStopBelowCurrent(ac, nextStop) == ac >= nextStop + 3 * Scale

\* for ac >= nextStop
StayAtStop(ac, nextStop) == ac >= nextStop

\* currStop -= 6.0
StepUpSix(currStop) == currStop - 6 * Scale

\* currStop -= 3.0
StepUp(currStop) == currStop - 3 * Scale

\* m.decompStopLengths(aRate): up to the loop.
DSLCall(aRate) ==
  /\ pc = "idle"
  /\ LET firstStop == firstDecompStop(heap, m)
         c == copyModel(heap, m, Alloc(heap))
     IN  /\ heap' = c.heap
         /\ dsl' = [NoDsl EXCEPT !.model = c.model, !.aRate = aRate,
                                 !.firstStop = firstStop,
                                 !.currStop = firstStop]
  /\ pc' = "dslLoop"
  /\ ret' = NoRet
  /\ UNCHANGED << m, cp, ndl, nops, powTab, wn, loop, dp, durs >>

\* m.decompStopLengths(aRate): the head of the outer loop and its body up to
\* the inner loop, or the return.
DSLLoop ==
  /\ pc = "dslLoop"
  /\ IF dsl.currStop >= lastStop
       THEN LET s  == TransitionCalc(heap, dsl.model, dsl.currStop, dsl.aRate)
                ns == NextStopOf(dsl.currStop)
                ac == ascentCeiling(s.heap, s.model)
                d  == [dsl EXCEPT !.model = s.model, !.nextStop = ns,
                                  !.ac = ac, !.steps = @ + 1,
                                  !.visited = Append(@, dsl.currStop)]
            IN  /\ heap' = s.heap
                /\ IF SkipStop(ac, ns)
                     THEN /\ dsl' = [d EXCEPT !.currStop = StepUp(@)]
                          /\ pc' = pc
                     ELSE /\ dsl' = [d EXCEPT !.stopLength = 0]
                          /\ pc' = "dslStop"
                /\ ret' = ret
       ELSE /\ ret' = Returned("decompStopLengths", << dsl.aRate >>,
                               dsl.stops, dsl.steps, dsl.depths, dsl.visited)
            /\ heap' = Collect(heap, Live({m, cp}))
            /\ dsl' = NoDsl
            /\ pc' = "idle"
  /\ UNCHANGED << m, cp, ndl, nops, powTab, wn, loop, dp, durs >>

\* m.decompStopLengths(aRate): the head of the inner loop and its body, or
\* the rest of the outer loop's body.
DSLStop ==
  /\ pc = "dslStop"
  /\ IF StayAtStop(dsl.ac, dsl.nextStop)
       THEN LET s == StopCalc(heap, dsl.model, Scale)
            IN  /\ heap' = s.heap
                /\ dsl' = [dsl EXCEPT !.model = s.model,
                                      !.ac = ascentCeiling(s.heap, s.model),
                                      !.stopLength = @ + 1, !.steps = @ + 1]
                /\ pc' = pc
       ELSE /\ dsl' = [dsl EXCEPT !.stops = Append(@, dsl.stopLength),
                                  !.depths = Append(@, dsl.currStop),
                                  !.currStop = StepUp(@)]
            /\ pc' = "dslLoop"
            /\ heap' = heap
  /\ UNCHANGED << m, cp, ndl, ret, nops, powTab, wn, loop, dp, durs >>

Next ==
  \/ \E depth \in Depths, rate \in Rates : CallTransitionCalc(depth, rate)
  \/ \E time \in Times : CallStopCalc(time)
  \/ CallAscentCeiling
  \/ CallFirstDecompStop
  \/ GetNDLCall
  \/ GetNDLStep
  \/ \E aRate \in AscentRates : DSLCall(aRate)
  \/ DSLLoop
  \/ DSLStop

Spec == Init /\ [][Next]_vars

\* The caller's calls alone, over a wider range of rates: a negative rate
\* makes the pressure rate, and on a descent the time, negative.
OpsRates == {20 * Scale, -9 * Scale}

NextOps ==
  \/ \E depth \in Depths, rate \in OpsRates : CallTransitionCalc(depth, rate)
  \/ \E time \in Times : CallStopCalc(time)

SpecOps == Init /\ [][NextOps]_vars

\* The caller's calls with a rate of zero and a target at the surface among
\* the arguments: a transition to the depth the model is at, and a division
\* by a zero pressure rate.
ZeroDepths == {0, 6 * Scale}

ZeroRates == {0, 20 * Scale}

NextZero ==
  \/ \E depth \in ZeroDepths, rate \in ZeroRates :
       CallTransitionCalc(depth, rate)
  \/ \E time \in Times : CallStopCalc(time)

SpecZero == Init /\ [][NextZero]_vars

\* Every gas mix with every coefficient set: the mutators and the ceiling.
MixConfigs ==
  {[gm |-> g, ccs |-> v] : g \in 1 .. Len(gasMixes),
                           v \in {ZHL16A, ZHL16B, ZHL16C}}

InitMix ==
  /\ \E cfg \in MixConfigs : m = New(cfg.gm, cfg.ccs, 1)
  /\ heap = [a \in Addrs |-> IF a = 1 THEN NewCompartments ELSE NoArray]
  /\ cp = NoModel
  /\ pc = "idle"
  /\ ndl = NoNdl
  /\ dsl = NoDsl
  /\ ret = NoRet
  /\ nops = 0
  /\ powTab = PowOneMinute
  /\ dp = NoPlan
  /\ durs = << >>
  /\ loop = NoLoop
  /\ wn = NoWn

NextMix ==
  \/ \E depth \in Depths, rate \in Rates : CallTransitionCalc(depth, rate)
  \/ \E time \in Times : CallStopCalc(time)
  \/ CallAscentCeiling

SpecMix == InitMix /\ [][NextMix]_vars

\* The functions of helpers and the partial pressures of gasmix, called
\* with the arguments of the repository's tests.
CalcDepths ==
  {-12 * Scale, 0, 5 * Scale, 18 * Scale, 27500000, 99 * Scale}

CalcPressures ==
  {-2200000, 0, Scale, 1500000, 2800000, 3750000, 10900000}

CallPPHe(g, depth) ==
  /\ pc = "idle"
  /\ ret' = Returned("PPHe", << g, depth >>, PPHe(gasMixes[g], depth), 0,
                     << >>, << >>)
  /\ UNCHANGED << heap, m, cp, pc, ndl, dsl, nops, powTab, wn, loop, dp, durs >>

CallPPN2(g, depth) ==
  /\ pc = "idle"
  /\ ret' = Returned("PPN2", << g, depth >>, PPN2(gasMixes[g], depth), 0,
                     << >>, << >>)
  /\ UNCHANGED << heap, m, cp, pc, ndl, dsl, nops, powTab, wn, loop, dp, durs >>

CallPPO2(g, depth) ==
  /\ pc = "idle"
  /\ ret' = Returned("PPO2", << g, depth >>, PPO2(gasMixes[g], depth), 0,
                     << >>, << >>)
  /\ UNCHANGED << heap, m, cp, pc, ndl, dsl, nops, powTab, wn, loop, dp, durs >>

CallPressure(depth) ==
  /\ pc = "idle"
  /\ ret' = Returned("Pressure", << depth >>, Pressure(depth), 0, << >>,
                     << >>)
  /\ UNCHANGED << heap, m, cp, pc, ndl, dsl, nops, powTab, wn, loop, dp, durs >>

CallDepth(pressure) ==
  /\ pc = "idle"
  /\ ret' = Returned("Depth", << pressure >>, Depth(pressure), 0, << >>,
                     << >>)
  /\ UNCHANGED << heap, m, cp, pc, ndl, dsl, nops, powTab, wn, loop, dp, durs >>

NextCalc ==
  \/ \E g \in 1 .. Len(gasMixes), depth \in CalcDepths : CallPPHe(g, depth)
  \/ \E g \in 1 .. Len(gasMixes), depth \in CalcDepths : CallPPN2(g, depth)
  \/ \E g \in 1 .. Len(gasMixes), depth \in CalcDepths : CallPPO2(g, depth)
  \/ \E depth \in CalcDepths : CallPressure(depth)
  \/ \E pressure \in CalcPressures : CallDepth(pressure)

SpecCalc == Init /\ [][NextCalc]_vars

\* The caller's dive plan: its rates and stops are set, then read.
MaxStops == 3

PlanRates == {0, 9 * Scale, 20 * Scale, -8 * Scale}

PlanStops ==
  { DivePlanStop(22 * Scale, 26 * Scale), DivePlanStop(5 * Scale, 3 * Scale),
    DivePlanStop(5 * Scale, 0), DivePlanStop(0, 3 * Scale) }

InitPlan == Init /\ m.gasMix = 2

\* dp.DescentRate, dp.AscentRate = desc, asc
SetRates(desc, asc) ==
  /\ pc = "idle"
  /\ dp.Stops = << >>
  /\ dp' = [dp EXCEPT !.DescentRate = desc, !.AscentRate = asc]
  /\ ret' = Returned("SetRates", << desc, asc >>, 0, 0, << >>, << >>)
  /\ UNCHANGED << heap, m, cp, pc, ndl, dsl, nops, powTab, wn, loop, durs >>

\* dp.Stops = append(dp.Stops, st)
AppendStop(st) ==
  /\ pc = "idle"
  /\ Len(dp.Stops) < MaxStops
  /\ dp' = [dp EXCEPT !.Stops = Append(@, st)]
  /\ ret' = Returned("AppendStop", << st >>, 0, 0, << >>, << >>)
  /\ UNCHANGED << heap, m, cp, pc, ndl, dsl, nops, powTab, wn, loop, durs >>

\* dp.transitionDuration(fromD, toD)
CallTransitionDuration(fromD, toD) ==
  /\ pc = "idle"
  /\ ret' = Returned("transitionDuration", << fromD, toD >>,
                     transitionDuration(dp, fromD, toD), 0, << >>, << >>)
  /\ UNCHANGED << heap, m, cp, pc, ndl, dsl, nops, powTab, wn, loop, dp, durs >>

\* dp.DiveProfile()
CallDiveProfile ==
  /\ pc = "idle"
  /\ ret' = Returned("DiveProfile", << >>, DiveProfile(dp), 0, << >>, << >>)
  /\ UNCHANGED << heap, m, cp, pc, ndl, dsl, nops, powTab, wn, loop, dp, durs >>

NextPlan ==
  \/ \E desc \in PlanRates, asc \in PlanRates : SetRates(desc, asc)
  \/ \E st \in PlanStops : AppendStop(st)
  \/ CallDiveProfile

SpecPlan == InitPlan /\ [][NextPlan]_vars

\* Plans without stops whose transitions are timed.  The depths of a
\* transition differ by nothing, by less than half a metre, by half a metre
\* (in decimals, and in float64 or not), by a multiple of the rate, and by a
\* millionth more.
PlanTransitions ==
  { << 0, 0 >>, << 5 * Scale, 5250000 >>, << 5 * Scale, 5500000 >>,
    << 5500000, 5 * Scale >>, << 200000, 700000 >>, << 700000, 200000 >>,
    << 1400000, 900000 >>, << 0, 22 * Scale >>, << 22 * Scale, 0 >>,
    << 22 * Scale, 5 * Scale >>, << 0, 20 * Scale >>, << 0, 20000001 >>,
    << 30000001, 0 >>, << 0, 1100000 >>, << 1100000, 0 >>,
    << 0, 27 * Scale >>, << 12 * Scale, 18 * Scale >>,
    << 16 * Scale, 5 * Scale >> }

\* The rates are those of PlanRates, 10 metres a minute, and a tenth of a
\* metre a minute, which float64 does not hold exactly.
NextDur ==
  \/ \E desc \in PlanRates \cup {100000, 10 * Scale},
        asc \in PlanRates \cup {100000, 10 * Scale} : SetRates(desc, asc)
  \/ \E t \in PlanTransitions : CallTransitionDuration(t[1], t[2])

SpecDur == InitPlan /\ [][NextDur]_vars

\* Plans whose transitions calcTransitions() works out: the caller's entries
\* are stops, an entry without a duration, and an entry marked as a
\* transition that no call computed; a descent rate of 0 makes a transition
\* of infinite duration.
TransStops ==
  { DivePlanStop(22 * Scale, 26 * Scale), DivePlanStop(5 * Scale, 3 * Scale),
    DivePlanStop(5 * Scale, 0),
    [Depth |-> 11 * Scale, Duration |-> 2 * Scale, IsTransition |-> TRUE,
     Comment |-> [dir |-> "Descent", from |-> 0, to |-> 220]] }

TransDescentRates == {0, 20 * Scale}

InitTrans ==
  /\ m = New(1, ZHL16C, 1)
  /\ heap = [a \in Addrs |-> IF a = 1 THEN NewCompartments ELSE NoArray]
  /\ cp = NoModel
  /\ pc = "idle"
  /\ ndl = NoNdl
  /\ dsl = NoDsl
  /\ ret = NoRet
  /\ nops = 0
  /\ powTab = PowOneMinute
  /\ \E desc \in TransDescentRates :
       dp = [NoPlan EXCEPT !.DescentRate = desc, !.AscentRate = 9 * Scale,
                           !.GasMix = 1]
  /\ durs = << >>
  /\ loop = NoLoop
  /\ wn = NoWn

\* dp.calcTransitions()
CallCalcTransitions ==
  /\ pc = "idle"
  /\ dp' = calcTransitions(dp)
  /\ ret' = Returned("calcTransitions", << dp.Stops >>, 0, 0, << >>, << >>)
  /\ UNCHANGED << heap, m, cp, pc, ndl, dsl, nops, powTab, wn, loop, durs >>

NextTrans ==
  \/ \E st \in TransStops : AppendStop(st)
  \/ CallCalcTransitions

SpecTrans == InitTrans /\ [][NextTrans]_vars

\* cp := m.copyModel()
CallCopyModel ==
  /\ pc = "idle"
  /\ LET c == copyModel(heap, m, Alloc(heap))
     IN  /\ cp' = c.model
         /\ heap' = Collect(c.heap, Live({m, c.model}))
  /\ ret' = Returned("copyModel", << >>, 0, 0, << >>, << >>)
  /\ UNCHANGED << m, pc, ndl, dsl, nops, powTab, wn, loop, dp, durs >>

\* cp.TransitionCalc(depth, rate)
CopyTransitionCalc(depth, rate) ==
  /\ pc = "idle"
  /\ cp # NoModel
  /\ nops < MaxOps
  /\ LET s == TransitionCalc(heap, cp, depth, rate)
     IN  heap' = s.heap /\ cp' = s.model
  /\ nops' = nops + 1
  /\ ret' = Returned("cp.TransitionCalc", << depth, rate >>, 0, 0, << >>,
                     << >>)
  /\ UNCHANGED << m, pc, ndl, dsl, powTab, wn, loop, dp, durs >>

\* cp.StopCalc(time)
CopyStopCalc(time) ==
  /\ pc = "idle"
  /\ cp # NoModel
  /\ nops < MaxOps
  /\ LET s == StopCalc(heap, cp, time)
     IN  heap' = s.heap /\ cp' = s.model
  /\ nops' = nops + 1
  /\ ret' = Returned("cp.StopCalc", << time >>, 0, 0, << >>, << >>)
  /\ UNCHANGED << m, pc, ndl, dsl, powTab, wn, loop, dp, durs >>

NextCopy ==
  \/ \E depth \in Depths, rate \in Rates : CallTransitionCalc(depth, rate)
  \/ \E time \in Times : CallStopCalc(time)
  \/ CallCopyModel
  \/ \E depth \in Depths, rate \in Rates : CopyTransitionCalc(depth, rate)
  \/ \E time \in Times : CopyStopCalc(time)

SpecCopy == Init /\ [][NextCopy]_vars

\* TransitionCalc and StopCalc with the iterations of the loop over
\* m.compartments shared out among workers, worker w taking the compartments
\* i with i % NumWorkers = w in rising order, the workers in any interleaving.
NumWorkers == 3

Workers == 0 .. NumWorkers - 1

ParConfigs == {[gm |-> 3, ccs |-> ZHL16C]}

InitPar == Init /\ \E cfg \in ParConfigs : m = New(cfg.gm, cfg.ccs, 1)

\* m.TransitionCalc(depth, rate): up to the loop.
ParTransitionCalc(depth, rate) ==
  /\ pc = "idle"
  /\ nops < MaxOps
  /\ loop' = [op |-> "TransitionCalc", args |-> << depth, rate >>,
              nextP |-> Pressure(depth), pRate |-> PRate(m, depth, rate),
              time |-> TransitionTime(m, depth, rate), done |-> {},
              before |-> heap[m.compartments], was |-> m]
  /\ pc' = "compartments"
  /\ UNCHANGED << heap, m, cp, ndl, dsl, ret, nops, powTab, wn, dp, durs >>

\* m.StopCalc(time): up to the loop.
ParStopCalc(time) ==
  /\ pc = "idle"
  /\ nops < MaxOps
  /\ loop' = [op |-> "StopCalc", args |-> << time >>, nextP |-> m.currP,
              pRate |-> 0, time |-> time, done |-> {},
              before |-> heap[m.compartments], was |-> m]
  /\ pc' = "compartments"
  /\ UNCHANGED << heap, m, cp, ndl, dsl, ret, nops, powTab, wn, dp, durs >>

\* The compartments worker w has still to do.
Todo(w) == {i \in Compartments \ loop.done : i % NumWorkers = w}

\* One iteration of the loop, by worker w.
ParCompartment(w) ==
  /\ pc = "compartments"
  /\ Todo(w) # {}
  /\ LET i == CHOOSE j \in Todo(w) : \A k \in Todo(w) : j <= k
     IN  /\ heap' = [heap EXCEPT ![m.compartments][i] =
                       CompartmentUpdate(heap, m, i, loop.time, loop.pRate)]
         /\ loop' = [loop EXCEPT !.done = @ \cup {i}]
  /\ UNCHANGED << m, cp, pc, ndl, dsl, ret, nops, powTab, wn, dp, durs >>

\* The statements after the loop.
ParReturn ==
  /\ pc = "compartments"
  /\ loop.done = Compartments
  /\ m' = [m EXCEPT !.currP = loop.nextP, !.currT = AddAbs(@, loop.time)]
  /\ ret' = Returned(loop.op, loop.args, 0, 0, << >>, << >>)
  /\ nops' = nops + 1
  /\ durs' = Append(durs, loop.time)
  /\ loop' = [NoLoop EXCEPT !.before = loop.before, !.was = m]
  /\ pc' = "idle"
  /\ UNCHANGED << heap, cp, ndl, dsl, powTab, wn, dp >>

NextPar ==
  \/ \E depth \in Depths, rate \in Rates : ParTransitionCalc(depth, rate)
  \/ \E time \in Times : ParStopCalc(time)
  \/ \E w \in Workers : ParCompartment(w)
  \/ ParReturn

SpecPar == InitPar /\ [][NextPar]_vars

\* A short, deep heliox dive followed by a slow planned ascent: the clone
\* goes on taking up gas on its way to the first stop.
SlowConfig == [gm |-> 4, ccs |-> ZHL16A]
SlowDepths == {60 * Scale}
SlowTimes == {5 * Scale}
SlowAscentRates == {1 * Scale}

InitSlow == Init /\ m = New(SlowConfig.gm, SlowConfig.ccs, 1)

NextSlow ==
  \/ \E depth \in SlowDepths, rate \in Rates : CallTransitionCalc(depth, rate)
  \/ \E time \in SlowTimes : CallStopCalc(time)
  \/ \E aRate \in SlowAscentRates : DSLCall(aRate)
  \/ DSLLoop
  \/ DSLStop

SpecSlow == InitSlow /\ [][NextSlow]_vars

\* Dive plans on air with a short, deep first level: the stops of a plan and
\* its ascent rate are the caller's, and WithinNDLs() judges the plan. Here m
\* is bmann, the model WithinNDLs() makes for itself, and pc the call in
\* progress on it.
NdlStops == {DivePlanStop(50 * Scale, 3 * Scale), DivePlanStop(9 * Scale, Scale)}

NdlAscentRates == {3 * Scale, 9 * Scale}

\* The longest plan WithinNDLs() is asked about.
MaxNdlStops == 2

InitNdl ==
  /\ m = New(1, ZHL16C, 1)
  /\ heap = [a \in Addrs |-> IF a = 1 THEN NewCompartments ELSE NoArray]
  /\ cp = NoModel
  /\ pc = "idle"
  /\ ndl = NoNdl
  /\ dsl = NoDsl
  /\ ret = NoRet
  /\ nops = 0
  /\ powTab = PowOneMinute
  /\ \E asc \in NdlAscentRates :
       dp = [NoPlan EXCEPT !.DescentRate = 20 * Scale, !.AscentRate = asc,
                           !.GasMix = 1]
  /\ durs = << >>
  /\ loop = NoLoop
  /\ wn = NoWn

\* The caller adds a stop to the plan, between two calls of WithinNDLs().
NdlAppendStop(st) ==
  /\ wn = NoWn
  /\ Len(dp.Stops) < MaxNdlStops
  /\ AppendStop(st)

\* dp.WithinNDLs(): up to the loop.
WithinNDLsCall ==
  /\ pc = "idle"
  /\ wn = NoWn
  /\ m' = New(dp.GasMix, ZHL16C, 1)
  /\ heap' = [a \in Addrs |-> IF a = 1 THEN NewCompartments ELSE NoArray]
  /\ wn' = [at |-> "range", i |-> 1, prevDepth |-> 0, checks |-> << >>]
  /\ ret' = NoRet
  /\ UNCHANGED << cp, pc, ndl, dsl, nops, powTab, dp, durs, loop >>

\* What a test of GetNDL() in WithinNDLs() finds: the ceiling and the elapsed
\* time of bmann, and the value GetNDL() returned.
NDLCheck == [ac |-> ascentCeiling(heap, m), currT |-> m.currT, ndl |-> ret.val]

\* The value of WithinNDLs() and what its tests found.
WithinNDLsReturn(val, checks) ==
  /\ ret' = Returned("WithinNDLs", << >>, val, 0, checks, << >>)
  /\ wn' = NoWn

\* dp.WithinNDLs(): the head of the loop over dp.Stops and its body up to the
\* first GetNDL(), or the return after the loop.
WithinNDLsRange ==
  /\ pc = "idle"
  /\ wn.at = "range"
  /\ IF wn.i > Len(dp.Stops)
       THEN /\ WithinNDLsReturn(TRUE, wn.checks)
            /\ UNCHANGED << heap, m >>
     ELSE IF dp.Stops[wn.i].IsTransition
       THEN /\ wn' = [wn EXCEPT !.i = @ + 1]
            /\ UNCHANGED << heap, m, ret >>
     ELSE LET s    == dp.Stops[wn.i]
              rate == IF DescOrAsc(wn.prevDepth, s.Depth) = -1
                        THEN dp.AscentRate
                        ELSE dp.DescentRate
              t    == TransitionCalc(heap, m, s.Depth, rate)
          IN  /\ heap' = t.heap
              /\ m' = t.model
              /\ wn' = [wn EXCEPT !.at = "transitioned"]
              /\ ret' = NoRet
  /\ UNCHANGED << cp, pc, ndl, dsl, nops, powTab, dp, durs, loop >>

\* dp.WithinNDLs(): bmann.GetNDL() is called.
WithinNDLsGetNDL ==
  /\ wn.at \in {"transitioned", "stopped"}
  /\ ret.op # "GetNDL"
  /\ GetNDLCall

\* dp.WithinNDLs(): the test of GetNDL() after the transition, and the stop.
WithinNDLsTransitioned ==
  /\ pc = "idle"
  /\ wn.at = "transitioned"
  /\ ret.op = "GetNDL"
  /\ IF ret.val <= 0
       THEN /\ WithinNDLsReturn(FALSE, Append(wn.checks, NDLCheck))
            /\ UNCHANGED << heap, m >>
       ELSE LET st == StopCalc(heap, m, dp.Stops[wn.i].Duration)
            IN  /\ heap' = st.heap
                /\ m' = st.model
                /\ wn' = [wn EXCEPT !.at = "stopped",
                                    !.checks = Append(@, NDLCheck)]
                /\ ret' = NoRet
  /\ UNCHANGED << cp, pc, ndl, dsl, nops, powTab, dp, durs, loop >>

\* dp.WithinNDLs(): the test of GetNDL() after the stop, and the end of the
\* loop's body.
WithinNDLsStopped ==
  /\ pc = "idle"
  /\ wn.at = "stopped"
  /\ ret.op = "GetNDL"
  /\ IF ret.val <= 0
       THEN WithinNDLsReturn(FALSE, Append(wn.checks, NDLCheck))
       ELSE /\ wn' = [at |-> "range", i |-> wn.i + 1,
                      prevDepth |-> dp.Stops[wn.i].Depth,
                      checks |-> Append(wn.checks, NDLCheck)]
            /\ ret' = NoRet
  /\ UNCHANGED << heap, m, cp, pc, ndl, dsl, nops, powTab, dp, durs, loop >>

NextNdl ==
  \/ \E st \in NdlStops : NdlAppendStop(st)
  \/ WithinNDLsCall
  \/ WithinNDLsRange
  \/ WithinNDLsGetNDL
  \/ GetNDLStep
  \/ WithinNDLsTransitioned
  \/ WithinNDLsStopped

SpecNdl == InitNdl /\ [][NextNdl]_vars

--------------------------------------------------------------------------
\* Properties

InDSL == {"dslLoop", "dslStop"}

\* C1: decompStopLengths(aRate) never mutates the receiver: no step of the
\* call changes the receiver's struct or its compartment array, and the
\* model the planner transitions and stops is one with an array of its own.
C1_DecompStopLengthsFrame ==
  [][(pc \in InDSL \/ pc' \in InDSL) =>
       /\ Canon(heap', m') = Canon(heap, m)
       /\ pc' \in InDSL => dsl'.model.compartments # m'.compartments]_vars

C1_Witness ==
  /\ ret.op = "decompStopLengths"
  /\ Len(ret.val) > 1
  /\ ret.steps > Len(ret.visited)

\* C2: copyModel() returns a copy that shares no mutable state: a call on the
\* copy leaves the original as it was, a call on the original leaves the copy
\* as it was, and at the moment of copying the two are equal in compartments,
\* currP, currT, variant and gas mix, the copy's array being a new one.
C2_CopyModelNoAliasing ==
  [][/\ (ret'.op \in {"cp.TransitionCalc", "cp.StopCalc"} /\ nops' = nops + 1)
          => Canon(heap', m') = Canon(heap, m)
     /\ (ret'.op \in {"TransitionCalc", "StopCalc"} /\ nops' = nops + 1
           /\ cp # NoModel)
          => Canon(heap', cp') = Canon(heap, cp)
     /\ (ret'.op = "copyModel" /\ cp' # cp)
          => /\ heap'[cp'.compartments] = heap[m.compartments]
             /\ cp'.compartments # m.compartments
             /\ cp'.currP = m.currP /\ cp'.currT = m.currT
             /\ cp'.ccs = m.ccs /\ cp'.coefs = m.coefs
             /\ cp'.gasMix = m.gasMix
             /\ Canon(heap', m') = Canon(heap, m)]_vars

C2_Witness ==
  /\ cp # NoModel
  /\ ret.op = "cp.StopCalc"
  /\ nops = MaxOps
  /\ m.currT > 0
  /\ heap[cp.compartments] # heap[m.compartments]

\* C3: the queries GetNDL, ascentCeiling and firstDecompStop leave the model
\* unchanged: the struct and the compartments of the model change in no step
\* of these calls, so only TransitionCalc and StopCalc change them.
C3_QueriesFrame ==
  [][(\/ pc = "GetNDL"
      \/ pc' = "GetNDL"
      \/ /\ pc = "idle" /\ pc' = "idle"
         /\ ret'.op \in {"GetNDL", "ascentCeiling", "firstDecompStop"})
       => Canon(heap', m') = Canon(heap, m)]_vars

C3_Witness ==
  /\ ret.op = "GetNDL"
  /\ ret.steps > 1
  /\ nops > 1

\* C4: GetNDL applies at most 60 one-minute StopCalc steps to its clone, and
\* returns 60 when none of those 60 steps makes the ceiling positive.
C4_AtMost60Steps ==
  /\ ndl.steps <= maxNDL
  /\ ret.op = "GetNDL" =>
       /\ ret.steps <= maxNDL
       /\ (\A j \in 1 .. Len(ret.trail) : j <= maxNDL => ret.trail[j] <= 0)
            => ret.val = maxNDL

\* C5 as claimed: for a model with currT > 0, GetNDL returns the index i of
\* the first one-minute step after which the ceiling is positive: positive
\* after i+1 stops, not positive after each of the first i; i is in 0..60.
C5_FirstPositiveIndex ==
  (ret.op = "GetNDL" /\ m.currT > 0) =>
    /\ ret.val \in 0 .. maxNDL
    /\ Len(ret.trail) = ret.val + 1
    /\ ret.trail[ret.val + 1] > 0
    /\ \A j \in 1 .. ret.val : ret.trail[j] <= 0

\* C5 as amended: the same when a step among the first 61 makes the ceiling
\* positive; when none does, GetNDL returns 60.  ret.trail is the ceiling of
\* the clone after each one-minute stop, the first of them the ceiling of the
\* model after one minute at its depth.
C5_FirstPositiveIndexOrCap ==
  (ret.op = "GetNDL" /\ m.currT > 0) =>
    /\ ret.val \in 0 .. maxNDL
    /\ Len(ret.trail) = ret.val + 1
    /\ \A j \in 1 .. ret.val : ret.trail[j] <= 0
    /\ ret.trail[ret.val + 1] > 0 \/ ret.val = maxNDL
    /\ LET s == StopCalc(heap, m, Scale)
       IN  ret.trail[1] = ascentCeiling(s.heap, s.model)

C5_Witness ==
  /\ ret.op = "GetNDL"
  /\ ret.val \in 1 .. (maxNDL - 1)
  /\ ret.trail[ret.val + 1] > 0

\* C6: GetNDL returns 60 for every model whose currT is exactly zero, without
\* stepping any model.
C6_FreshModelNDL ==
  /\ pc = "GetNDL" => m.currT # 0
  /\ (ret.op = "GetNDL" /\ m.currT = 0) =>
       (ret.val = 60 /\ ret.steps = 0 /\ ret.trail = << >>)

C6_Witness ==
  /\ ret.op = "GetNDL"
  /\ m.currT = 0
  /\ ret.val = 60

\* C7: the k entries decompStopLengths returns are the lengths of the stops
\* at 3k, 3(k-1), ..., 3 metres, in that order.  ret.trail is the depth at
\* which each entry was recorded.
C7_StopsAtMultiplesOfThree ==
  ret.op = "decompStopLengths" =>
    \A j \in 1 .. Len(ret.val) :
      ret.trail[j] = 3 * (Len(ret.val) - j + 1) * Scale

\* C8: decompStopLengths always terminates: the one-minute stepping at each
\* candidate stop ends within the bound of 60 minutes a stop, and the walk
\* over the candidate stops ends at 3 metres.
C8_StopsBounded ==
  /\ dsl.stopLength <= 60
  /\ ret.op = "decompStopLengths" =>
       /\ \A j \in 1 .. Len(ret.val) : ret.val[j] <= 60
       /\ Len(ret.visited) > 0 => ret.visited[Len(ret.visited)] = 3 * Scale

\* C9: decompStopLengths returns an empty sequence whenever firstDecompStop()
\* is below 3 metres, and then performs no transition or stop on any model.
C9_NoStopsBelowThree ==
  /\ (pc \in InDSL /\ dsl.firstStop < 3 * Scale) =>
       (dsl.steps = 0 /\ dsl.stops = << >>)
  /\ (ret.op = "decompStopLengths" /\ firstDecompStop(heap, m) < 3 * Scale) =>
       (ret.val = << >> /\ ret.steps = 0 /\ ret.visited = << >>)

C9_Witness ==
  /\ ret.op = "decompStopLengths"
  /\ firstDecompStop(heap, m) < 3 * Scale
  /\ ret.val = << >>
  /\ m.currT = 0

\* C10: TransitionCalc(depth, rate) sets currP to depth/10 + 1 and adds the
\* absolute value of the pressure delta divided by rate/10 to currT.
C10_TransitionBookkeeping ==
  [][(ret'.op = "TransitionCalc" /\ nops' = nops + 1) =>
       LET depth == ret'.args[1]
           rate  == ret'.args[2]
       IN  /\ m'.currP = (depth \div 10) + Scale
           /\ m'.currT =
                m.currT + FDiv(Abs(((depth \div 10) + Scale) - m.currP),
                               Abs(rate \div 10))]_vars

\* Down to 30 metres, up to 6 metres and down to 30 metres again at 20
\* metres a minute: 1.5 + 1.2 + 1.2 minutes, and 4 bar as after the first
\* descent.
C10_Witness ==
  /\ ret.op = "TransitionCalc"
  /\ nops = 3
  /\ m.currT = 3900000
  /\ m.currP = 4 * Scale

\* C11: StopCalc(t) leaves currP, the variant, the coefficient and gas-mix
\* references and the array reference unchanged; it adds t to currT.
C11_StopCalcFrame ==
  [][(ret'.op = "StopCalc" /\ nops' = nops + 1) =>
       /\ m'.currP = m.currP
       /\ m'.ccs = m.ccs /\ m'.coefs = m.coefs
       /\ m'.gasMix = m.gasMix
       /\ m'.compartments = m.compartments
       /\ m'.currT = m.currT + ret'.args[1]]_vars

C11_Witness ==
  /\ ret.op = "StopCalc"
  /\ nops > 1
  /\ m.currP > atmPressure
  /\ m.currT > ret.args[1]

\* 0.0, then += math.Abs(time) for each time of seq in turn.
RECURSIVE SumAbs(_)
SumAbs(seq) ==
  IF seq = << >> THEN 0
  ELSE AddAbs(SumAbs(SubSeq(seq, 1, Len(seq) - 1)), seq[Len(seq)])

\* C12: currT never decreases, and at every point it is the sum of the
\* absolute values of the times of the TransitionCalc and StopCalc calls
\* made since construction.
C12_ElapsedTime ==
  /\ [](m.currT = SumAbs(durs))
  /\ [][m'.currT >= m.currT]_vars

\* Three calls made, one of them a descent at a negative rate, whose time is
\* negative.
C12_Witness ==
  /\ Len(durs) = 3
  /\ \E i \in 1 .. 3 : durs[i] < 0
  /\ m.currT > 60 * Scale

\* C13: a TransitionCalc to the depth the model is at has a duration of zero
\* and leaves currP, currT and every compartment pressure as they were, for
\* every rate, the rate 0 included.
C13_ZeroDeltaTransition ==
  [][(/\ ret'.op = "TransitionCalc"
      /\ nops' = nops + 1
      /\ Pressure(ret'.args[1]) = m.currP)
       => /\ durs'[Len(durs')] = 0
          /\ Canon(heap', m') = Canon(heap, m)]_vars

\* C14: ascentCeiling returns the depth (pressure - 1) * 10 of the largest
\* of ((pHe + pN2) - a) * b over the 16 compartments, (a, b) being the
\* Helium pair when the mix is classified Heliox and the Nitrogen pair for
\* every other mix type.
C14_AscentCeilingFormula ==
  ret.op = "ascentCeiling" =>
    LET c  == heap[m.compartments]
        cf == compartCoefSets[m.ccs + 1]
        he == MixType(gasMixes[m.gasMix]) = Heliox
        v  == [i \in Compartments |->
                 IF he
                   THEN FMul((c[i].pHe + c[i].pN2) - cf[i].heA, cf[i].heB)
                   ELSE FMul((c[i].pHe + c[i].pN2) - cf[i].n2A, cf[i].n2B)]
    IN  \E i \in Compartments :
          /\ \A j \in Compartments : v[j] <= v[i]
          /\ ret.val = (v[i] - Scale) * 10

C14_Witness ==
  /\ ret.op = "ascentCeiling"
  /\ MixType(gasMixes[m.gasMix]) = Heliox
  /\ nops > 1
  /\ ret.val > 0

\* The loadings a compartment is raised by.
LoadingSteps == {1, Scale \div 2}

\* The heap with pHe or pN2 of compartment i of the model raised by d.
RaisedHe(i, d) == [heap EXCEPT ![m.compartments][i].pHe = @ + d]

RaisedN2(i, d) == [heap EXCEPT ![m.compartments][i].pN2 = @ + d]

\* C15: raising the loading pHe + pN2 of one compartment, the others, the
\* variant and the mix held fixed, never lowers ascentCeiling().
C15_CeilingMonotone ==
  \A i \in Compartments, d \in LoadingSteps :
    /\ ascentCeiling(RaisedHe(i, d), m) >= ascentCeiling(heap, m)
    /\ ascentCeiling(RaisedN2(i, d), m) >= ascentCeiling(heap, m)

\* After a dive, a compartment whose loading raises the ceiling and one
\* whose loading leaves it as it is.
C15_Witness ==
  /\ nops > 1
  /\ \E i \in Compartments :
       ascentCeiling(RaisedN2(i, Scale \div 2), m) > ascentCeiling(heap, m)
  /\ \E i \in Compartments :
       ascentCeiling(RaisedN2(i, Scale \div 2), m) = ascentCeiling(heap, m)

\* C16: a model New() has just built has pHe = 0 and pN2 = 0.79 * (1 - pH2O)
\* = 0.740499 in each of its 16 compartments, currP = 1 and currT = 0, for
\* every gas mix and variant.
C16_FreshModel ==
  nops = 0 =>
    /\ \A i \in Compartments :
         heap[m.compartments][i] = [pHe |-> 0, pN2 |-> 740499]
    /\ DOMAIN heap[m.compartments] = 1 .. 16
    /\ m.currP = 1000000
    /\ m.currT = 0

C16_Witness ==
  /\ nops = 0
  /\ MixType(gasMixes[m.gasMix]) = Trimix
  /\ m.ccs = ZHL16C
  /\ heap[m.compartments][16].pN2 = 740499

\* C17: PPHe(depth) is the partial pressure of Helium of the mix at the
\* depth, Pressure(|depth|) * FHe, and so 0 for every mix without Helium.
C17_PPHeIsHeliumPressure ==
  ret.op = "PPHe" =>
    LET gm    == gasMixes[ret.args[1]]
        depth == ret.args[2]
    IN  /\ ret.val = FMul((Abs(depth) \div 10) + Scale, gm.FHe)
        /\ gm.FHe = 0 => ret.val = 0

\* C18: Pressure and Depth take a negative argument as its magnitude:
\* Pressure(depth) = |depth|/10 + 1 and Depth(pressure) = (|pressure| - 1)*10.
C18_HelpersUseMagnitude ==
  /\ ret.op = "Pressure" => ret.val = (Abs(ret.args[1]) \div 10) + Scale
  /\ ret.op = "Depth" => ret.val = (Abs(ret.args[1]) - Scale) * 10

\* C19: transitionDuration(fromD, toD) is 0 when the depths differ by less
\* than half a metre; otherwise it is the depth difference divided by the
\* descent rate (toD deeper) or the ascent rate (toD shallower), rounded up
\* to a whole minute (infinite for a rate of 0).  It is never negative.
\* The depths, their difference and the rate are the float64 values the
\* code holds: with d the difference and r the rate, the result n has
\* (n - 1) * r < d, and d <= n * r but for the rounding of the division
\* (one part in 2^52).  In the decimals of the arguments, n * r >= d and
\* (n - 1) * r <= d whenever d is more than half a metre.
C19_TransitionDuration ==
  ret.op = "transitionDuration" =>
    LET fromD == ret.args[1]
        toD   == ret.args[2]
        d     == Float64Sub(toD, fromD)
        rate  == Abs(IF d.neg THEN dp.AscentRate ELSE dp.DescentRate)
        r     == Float64(rate).v
        n     == ret.val \div Scale
        nr    == BigMul(r, n)
    IN  /\ ret.val >= 0
        /\ ~BigLe(Half, d.mag) => ret.val = 0
        /\ Abs(d.dec) < Scale \div 2 => ret.val = 0
        /\ (BigLe(Half, d.mag) /\ rate = 0) => ret.val = Inf
        /\ (BigLe(Half, d.mag) /\ rate # 0) =>
             /\ ret.val = n * Scale
             /\ n >= 1
             /\ ~BigLe(d.mag, BigMul(r, n - 1))
             /\ BigLe(d.mag, BigAdd(nr, BigShr(nr, 52)))
             /\ n * rate >= Abs(d.dec)
             /\ (n - 1) * rate <= Abs(d.dec)
        /\ Abs(d.dec) > Scale \div 2 => ret.val > 0

\* A descent from the surface to 20.000001 metres at 20 metres a minute
\* takes 2 minutes.
C19_Witness ==
  /\ ret.op = "transitionDuration"
  /\ ret.args = << 0, 20000001 >>
  /\ dp.DescentRate = 20 * Scale
  /\ ret.val = 2 * Scale

\* The stops of the plan with Depth > 0 and Duration > 0, in order.
ValidStops == SelectSeq(dp.Stops, LAMBDA st : st.Depth > 0 /\ st.Duration > 0)

\* C20: for the n valid stops of the plan DiveProfile returns 2n+1 entries:
\* before each valid stop the transition to it from the valid stop before
\* (from 0 m before the first), then the stop, and last the transition from
\* the final stop to the surface; with no valid stop the profile is empty.
C20_DiveProfileShape ==
  ret.op = "DiveProfile" =>
    LET v == ValidStops
        n == Len(v)
        from(k) == IF k = 1 THEN 0 ELSE v[k - 1].Depth
    IN  /\ Len(ret.val) = IF n = 0 THEN 0 ELSE 2 * n + 1
        /\ \A k \in 1 .. n :
             /\ ret.val[2 * k] = v[k]
             /\ ret.val[2 * k - 1] = transitionStop(dp, from(k), v[k].Depth)
             /\ ret.val[2 * k - 1].IsTransition
        /\ n > 0 =>
             ret.val[2 * n + 1] = transitionStop(dp, v[n].Depth, 0)

\* Three stops entered, one of them not valid: five entries.
C20_Witness ==
  /\ ret.op = "DiveProfile"
  /\ Len(dp.Stops) = 3
  /\ Len(ret.val) = 5
  /\ ret.val[1].Duration = 2 * Scale

\* Strictly decreasing sequence whose elements all occur in another.
Decreasing(seq) == \A j \in 1 .. Len(seq) - 1 : seq[j] > seq[j + 1]

\* C21: decompStopLengths visits the candidate stops firstStop, firstStop-3,
\* ..., 3 in that order, transitioning the clone to each once, and appends
\* the recorded durations in the same order, so the result has at most
\* firstStop/3 entries.  visited is the target of each transition of the
\* clone, depths the stop at which each duration was recorded.
C21_CandidateOrder ==
  /\ pc \in InDSL =>
       /\ \A j \in 1 .. Len(dsl.visited) :
            dsl.visited[j] = dsl.firstStop - 3 * (j - 1) * Scale
       /\ Len(dsl.stops) = Len(dsl.depths)
       /\ Decreasing(dsl.depths)
       /\ \A j \in 1 .. Len(dsl.depths) :
            \E k \in 1 .. Len(dsl.visited) : dsl.visited[k] = dsl.depths[j]
  /\ ret.op = "decompStopLengths" =>
       LET firstStop == firstDecompStop(heap, m)
       IN  /\ Len(ret.visited) = Max(0, firstStop \div (3 * Scale))
           /\ \A j \in 1 .. Len(ret.visited) :
                ret.visited[j] = firstStop - 3 * (j - 1) * Scale
           /\ Len(ret.val) = Len(ret.trail)
           /\ Decreasing(ret.trail)
           /\ \A j \in 1 .. Len(ret.trail) :
                \E k \in 1 .. Len(ret.visited) : ret.visited[k] = ret.trail[j]
           /\ Len(ret.val) <= Max(0, firstStop \div (3 * Scale))

C21_Witness ==
  /\ ret.op = "decompStopLengths"
  /\ Len(ret.visited) >= 3
  /\ Len(ret.val) >= 2
  /\ Len(ret.val) < Len(ret.visited)

C23_SkipExactlyWhenShallower ==
  [][/\ (pc = "dslLoop" /\ dsl.currStop >= lastStop) =>
          LET s  == TransitionCalc(heap, dsl.model, dsl.currStop, dsl.aRate)
              ac == ascentCeiling(s.heap, s.model)
          IN  /\ dsl'.model = s.model
              /\ heap' = s.heap
              /\ dsl'.stops = dsl.stops
              /\ IF ac < dsl.currStop - 3 * Scale
                   THEN /\ pc' = "dslLoop"
                        /\ dsl'.currStop = dsl.currStop - 3 * Scale
                   ELSE /\ pc' = "dslStop"
                        /\ dsl'.currStop = dsl.currStop
                        /\ dsl'.stopLength = 0
     /\ (pc = "dslStop" /\ dsl.stopLength = 0) =>
          /\ pc' = "dslStop"
          /\ dsl'.stopLength = 1
          /\ dsl'.model.currT = dsl.model.currT + Scale
     /\ (pc = "dslStop" /\ pc' = "dslLoop") =>
          /\ dsl.stopLength >= 1
          /\ dsl'.stops = Append(dsl.stops, dsl.stopLength)
          /\ dsl'.currStop = dsl.currStop - 3 * Scale]_vars

C23_Witness ==
  /\ ret.op = "decompStopLengths"
  /\ ret.visited = << 6 * Scale, 3 * Scale >>
  /\ ret.trail = << 6 * Scale >>

\* The compartments and the signed duration a TransitionCalc(depth, rate)
\* step has produced, against those of a Schreiner step at pressure rate r.
\* A rate r of 0 is -0.0 when neg holds: delta / -0.0 is -delta / 0.0.
TransitionedAt(r, neg) ==
  LET depth == ret'.args[1]
      delta == Pressure(depth) - m.currP
      time  == IF r = 0 /\ neg THEN FDivF(-delta, 0) ELSE FDivF(delta, r)
  IN  /\ durs'[Len(durs')] = time
      /\ heap' = Recalc(heap, m, time, r)

\* C24: TransitionCalc gives the Schreiner equation a pressure
\* rate with the sign of the direction of travel, negative to a lower
\* pressure and positive to a higher one, whatever the sign of the rate
\* argument, so the duration delta / rate is never negative.
C24_RateFollowsDirection ==
  [][(ret'.op = "TransitionCalc" /\ nops' = nops + 1) =>
       LET depth == ret'.args[1]
           rate  == ret'.args[2]
           nextP == Pressure(depth)
       IN  /\ nextP < m.currP => TransitionedAt(-Abs(rate \div 10), TRUE)
           /\ nextP > m.currP => TransitionedAt(Abs(rate \div 10), FALSE)
           /\ durs'[Len(durs')] >= 0]_vars

\* C25: firstDecompStop returns the ascent ceiling rounded up to a multiple
\* of 3 metres: the result r is a multiple of 3 with ceiling <= r <
\* ceiling + 3, and r is zero or negative exactly when the ceiling is.
C25_FirstStopRoundsUp ==
  /\ ret.op = "firstDecompStop" =>
       LET r  == ret.val
           ac == ascentCeiling(heap, m)
       IN  /\ r % (3 * Scale) = 0
           /\ ac <= r /\ r < ac + 3 * Scale
           /\ r <= 0 <=> ac <= 0
  /\ pc \in InDSL =>
       LET r  == dsl.firstStop
           ac == ascentCeiling(heap, m)
       IN  /\ r % (3 * Scale) = 0
           /\ ac <= r /\ r < ac + 3 * Scale
           /\ r <= 0 <=> ac <= 0

C25_Witness ==
  /\ ret.op = "firstDecompStop"
  /\ ret.val >= 6 * Scale
  /\ ascentCeiling(heap, m) < ret.val
  /\ ascentCeiling(heap, m) > ret.val - 2 * Scale

\* C26: within one TransitionCalc or StopCalc call the 16 compartment
\* updates are independent: in every interleaving of the iterations each
\* compartment done holds what the call run in one piece gives it, each
\* compartment not yet done what it held before the call, and an iteration
\* changes its own compartment only; the call returns the model that the
\* call in one piece returns.
C26_CompartmentsIndependent ==
  /\ pc = "compartments" =>
       LET h0  == [heap EXCEPT ![m.compartments] = loop.before]
           seq == Recalc(h0, m, loop.time, loop.pRate)[m.compartments]
       IN  \A i \in Compartments :
             heap[m.compartments][i] =
               IF i \in loop.done THEN seq[i] ELSE loop.before[i]
  /\ (pc = "idle" /\ ret.op \in {"TransitionCalc", "StopCalc"}) =>
       LET h0  == [heap EXCEPT ![m.compartments] = loop.before]
           one == IF ret.op = "TransitionCalc"
                    THEN TransitionCalc(h0, loop.was, ret.args[1], ret.args[2])
                    ELSE StopCalc(h0, loop.was, ret.args[1])
       IN  heap = one.heap /\ m = one.model

C26_Witness ==
  /\ pc = "compartments"
  /\ loop.op = "TransitionCalc"
  /\ nops = 2
  /\ loop.done = {2, 3, 5, 6, 9, 12, 15}
  /\ heap[m.compartments][15] # loop.before[15]
  /\ heap[m.compartments][1] = loop.before[1]

\* C27: the planned ascent never takes the clone above its own ceiling: on
\* arrival at a candidate stop the ceiling is not deeper than the stop, and
\* when the planner returns after at least one candidate the clone's
\* ceiling is shallower than the surface.
C27_NeverAboveCeiling ==
  [][/\ (pc = "dslLoop" /\ dsl.currStop >= lastStop) =>
          dsl'.ac <= dsl.currStop
     /\ (pc = "dslLoop" /\ pc' = "idle" /\ dsl.firstStop >= lastStop) =>
          ascentCeiling(heap, dsl.model) < 0]_vars

\* C28: every entry of the sequence decompStopLengths returns, for a
\* positive ascent rate, is an integer >= 1: a candidate stop that needs no
\* time contributes no entry, never a 0.
C28_EntriesAtLeastOne ==
  /\ pc \in InDSL =>
       \A j \in 1 .. Len(dsl.stops) : dsl.stops[j] \in Nat \ {0}
  /\ (ret.op = "decompStopLengths" /\ ret.args[1] > 0) =>
       /\ \A j \in 1 .. Len(ret.val) : ret.val[j] \in Nat \ {0}
       /\ Len(ret.val) <= Len(ret.visited)

C28_Witness ==
  /\ ret.op = "decompStopLengths"
  /\ ret.args[1] > 0
  /\ ret.val = << 1 >>
  /\ Len(ret.visited) = 2

\* C29: when a model with currT > 0 already has a strictly positive ceiling
\* GetNDL returns 0, so that WithinNDLs, which tests GetNDL() <= 0 after
\* each transition and each stop, reports false for every plan that reaches
\* such a state.  ret.trail holds, for each test WithinNDLs made, the
\* ceiling and elapsed time of its model and what GetNDL returned.
C29_PositiveCeilingEndsNDL ==
  ret.op = "WithinNDLs" =>
    /\ \A j \in 1 .. Len(ret.trail) :
         (ret.trail[j].currT > 0 /\ ret.trail[j].ac > 0) =>
           ret.trail[j].ndl = 0
    /\ (\E j \in 1 .. Len(ret.trail) :
          ret.trail[j].currT > 0 /\ ret.trail[j].ac > 0) => ret.val = FALSE

\* C30: calcTransitions is idempotent: once a call has returned, a second
\* call leaves dp.Stops with the same depths, durations, transition flags
\* and comments, whatever list of stops the first call started from (stops,
\* entries without a duration, entries already marked as transitions).
C30_CalcTransitionsIdempotent ==
  ret.op = "calcTransitions" => calcTransitions(dp).Stops = dp.Stops

\* A first call that dropped an entry marked as a transition and one without
\* a duration, and worked out an infinite descent and the final ascent.
C30_Witness ==
  /\ ret.op = "calcTransitions"
  /\ Len(ret.args[1]) = 3
  /\ ret.args[1][1].IsTransition
  /\ ret.args[1][2].Duration = 0
  /\ Len(dp.Stops) = 3
  /\ dp.Stops[1].IsTransition /\ dp.Stops[1].Duration = Inf
  /\ ~dp.Stops[2].IsTransition
  /\ dp.Stops[3].IsTransition /\ dp.Stops[3].Comment.dir = "Ascent"
  /\ dp.Stops # ret.args[1]

====
